---- MODULE Spec2Model ----
(***************************************************************************)
(* Model of runtime/dart/utils/mapped_resource.cc: MappedResource (a       *)
(* read-only or executable mapping of a VMO obtained through a namespace)  *)
(* and ElfSnapshot (an ELF image loaded through Dart_LoadELF_Fd).          *)
(*                                                                         *)
(* Every public entry point is one action.  The outcome of each external   *)
(* call (fdio, zx, Dart) is an input of the action, chosen from a small    *)
(* set; the calls made by the last entry point are recorded in trace, the  *)
(* kernel objects they create in fds, maps and elfs.                       *)
(***************************************************************************)
EXTENDS Integers, Sequences, FiniteSets, TLC

\* ---------------------------------------------------------------- bounds
MaxOps == 2        \* number of Load* calls in one run
MaxSize == 2       \* largest buffer size, in bytes
MaxPathLen == 1    \* longest path, in characters
MaxAddr == 3       \* size of the address space of the two-thread runs

\* ----------------------------------------------------- program constants
nullptr == 0
AT_FDCWD == -100

Chars == {"/", "a"}
Paths == UNION {[1..n -> Chars] : n \in 0..MaxPathLen}
Namespaces == {1}
ZX_VM_PERM_READ == "ZX_VM_PERM_READ"
ZX_VM_PERM_EXECUTE == "ZX_VM_PERM_EXECUTE"
ZX_OK == "ZX_OK"
ZX_ERR == "ZX_ERR"

VARIABLES
  resource,    \* the MappedResource instance: [address_, size_]
  snapshot,    \* the ElfSnapshot instance: [handle_, vm_data_, vm_instrs_,
               \*                            isolate_data_, isolate_instrs_]
  destroyed,   \* which of "resource", "snapshot" had its destructor run
  maps,        \* every mapping created by vmar map: [addr, len, unmaps]
  fds,         \* every descriptor opened: [kind, opener, closes, loads]
  elfs,        \* every image loaded by Dart_LoadELF_Fd: [unloads]
  call,        \* the last entry point called: [op, args, ret]
  trace,       \* the external calls made by that entry point, in order
  aborted,     \* the process was aborted by a fatal check
  nops,        \* number of Load* calls made so far
  \* Two threads, each loading and then destroying a MappedResource of its
  \* own, one statement at a time:
  pc,          \* the statement each thread is at
  resources,   \* the MappedResource of each thread: [address_, size_]
  locals,      \* resource_vmo.size and addr of each thread's LoadFromVmo
  vmar,        \* every mapping made in the shared address space:
               \* [addr, len, owner, unmaps]
  unmapLog     \* every unmap call: [by, addr, len, hit]

coreVars == <<resource, snapshot, destroyed, maps, fds, elfs, call, trace,
              aborted, nops>>

threadVars == <<pc, resources, locals, vmar, unmapLog>>

vars == <<resource, snapshot, destroyed, maps, fds, elfs, call, trace,
          aborted, nops, pc, resources, locals, vmar, unmapLog>>

\* One external call: the function, its arguments and what it returned
\* (for VmoFromFilename and VmoFromFilenameAt, with the buffer it filled in).
Ev(fn, arg, ret) == [fn |-> fn, arg |-> arg, ret |-> ret]

\* ------------------------------------------------------------- externals

\* std::string::operator[](0): the first character, '\0' on an empty string.
CharAt0(path) == IF Len(path) = 0 THEN "\\0" ELSE path[1]

\* dart_utils::Check(condition, tag): a false condition is fatal.
CheckFails(condition) == ~condition

\* A default-constructed fuchsia::mem::Buffer.
EmptyBuffer == [size |-> 0, valid |-> FALSE, exec |-> FALSE]

\* VmoFromFilename / VmoFromFilenameAt: on success (env.vmo >= 0) a buffer
\* of env.vmo bytes whose vmo lacks ZX_RIGHT_EXECUTE.
VmoFromFile(env) ==
  IF env.vmo >= 0
    THEN [ok |-> TRUE,
          vmo |-> [size |-> env.vmo, valid |-> TRUE, exec |-> FALSE]]
    ELSE [ok |-> FALSE, vmo |-> EmptyBuffer]

\* fdio_ns_opendir: on success a new descriptor, the next index of fds.
NewFd(fdtab, kind, opener) ==
  Append(fdtab, [kind |-> kind, opener |-> opener, closes |-> 0, loads |-> 0])

\* close(fd)
CloseFd(fdtab, fd) ==
  IF fd \in DOMAIN fdtab
    THEN [fdtab EXCEPT ![fd].closes = @ + 1]
    ELSE fdtab

\* zx::vmar::map: the kernel maps the vmo or refuses (env.map_ok).  It
\* always refuses an execute mapping of a vmo without the execute right.
MapStatus(vmo, flags, env) ==
  IF /\ env.map_ok
     /\ vmo.valid
     /\ (ZX_VM_PERM_EXECUTE \in flags => vmo.exec)
    THEN ZX_OK
    ELSE ZX_ERR

\* The address of a new mapping.  The kernel never hands out an address
\* that is in use, and nothing is unmapped before the resource is
\* destroyed, so every mapping gets an address of its own.
MapAddr(maptab) == Len(maptab) + 1

\* zx::vmar::unmap(addr, len): releases the live mapping at addr.
Unmap(maptab, addr, len) ==
  [i \in DOMAIN maptab |->
     IF maptab[i].addr = addr /\ maptab[i].len = len /\ maptab[i].unmaps = 0
       THEN [maptab[i] EXCEPT !.unmaps = @ + 1]
       ELSE maptab[i]]

\* --------------------------------------------------------------- OpenVmo

\* OpenVmoAcquire returning on a failed lookup before it closes root_dir.
OpenVmoAcquire_CloseAfterReturn(namespc, path, env, fdtab) ==
  IF namespc = nullptr
    THEN LET r == VmoFromFile(env) IN
         [ok |-> r.ok, vmo |-> r.vmo, fds |-> fdtab,
          trace |-> <<Ev("VmoFromFilename", path, r)>>]
    ELSE
      IF ~env.opendir_ok
        THEN [ok |-> FALSE, vmo |-> EmptyBuffer, fds |-> fdtab,
              trace |-> <<Ev("fdio_ns_opendir", namespc, -1)>>]
        ELSE LET opened == NewFd(fdtab, "dir", "OpenVmo")
                 root_dir == Len(opened)
                 r == VmoFromFile(env)
                 lookup == <<Ev("fdio_ns_opendir", namespc, root_dir),
                             Ev("VmoFromFilenameAt", <<root_dir, path>>, r)>>
             IN  IF ~r.ok
                   THEN [ok |-> FALSE, vmo |-> r.vmo, fds |-> opened,
                         trace |-> lookup]
                   ELSE [ok |-> TRUE, vmo |-> r.vmo,
                         fds |-> CloseFd(opened, root_dir),
                         trace |-> lookup \o <<Ev("close", root_dir, 0)>>]

\* lines 38-54: acquire the buffer, by file name or below the namespace root
OpenVmoAcquire(namespc, path, env, fdtab) ==
  IF namespc = nullptr
    THEN LET r == VmoFromFile(env) IN
         [ok |-> r.ok, vmo |-> r.vmo, fds |-> fdtab,
          trace |-> <<Ev("VmoFromFilename", path, r)>>]
    ELSE
      IF ~env.opendir_ok
        THEN [ok |-> FALSE, vmo |-> EmptyBuffer, fds |-> fdtab,
              trace |-> <<Ev("fdio_ns_opendir", namespc, -1)>>]
        ELSE LET opened == NewFd(fdtab, "dir", "OpenVmo")
                 root_dir == Len(opened)
                 r == VmoFromFile(env)
             IN  [ok |-> r.ok, vmo |-> r.vmo,
                  fds |-> CloseFd(opened, root_dir),
                  trace |-> <<Ev("fdio_ns_opendir", namespc, root_dir),
                              Ev("VmoFromFilenameAt", <<root_dir, path>>, r),
                              Ev("close", root_dir, 0)>>]

\* OpenVmoGrant that never asks for the execute right.
OpenVmoGrant_Skipped(vmo, executable, env) ==
  [ok |-> TRUE, vmo |-> vmo, trace |-> <<>>]

\* OpenVmoGrant going on after a failed replace_as_executable.
OpenVmoGrant_StatusIgnored(vmo, executable, env) ==
  IF executable
    THEN LET status == IF env.replace_ok THEN ZX_OK ELSE ZX_ERR IN
         [ok |-> TRUE,
          vmo |-> [vmo EXCEPT !.exec = (status = ZX_OK)],
          trace |-> <<Ev("replace_as_executable", vmo, status)>>]
    ELSE [ok |-> TRUE, vmo |-> vmo, trace |-> <<>>]

\* lines 56-68: replace_as_executable when executable
OpenVmoGrant(vmo, executable, env) ==
  IF executable
    THEN LET status == IF env.replace_ok THEN ZX_OK ELSE ZX_ERR IN
         IF status # ZX_OK
           THEN [ok |-> FALSE, vmo |-> EmptyBuffer,
                 trace |-> <<Ev("replace_as_executable", vmo, status)>>]
           ELSE [ok |-> TRUE, vmo |-> [vmo EXCEPT !.exec = TRUE],
                 trace |-> <<Ev("replace_as_executable", vmo, status)>>]
    ELSE [ok |-> TRUE, vmo |-> vmo, trace |-> <<>>]

\* OpenVmo without the check of line 36.
OpenVmo_NoCheck(namespc, path, executable, env, fdtab) ==
  LET a == OpenVmoAcquire(namespc, path, env, fdtab) IN
  IF ~a.ok
    THEN [abort |-> FALSE, ok |-> FALSE, vmo |-> a.vmo, fds |-> a.fds,
          trace |-> a.trace]
    ELSE LET g == OpenVmoGrant(a.vmo, executable, env) IN
         [abort |-> FALSE, ok |-> g.ok, vmo |-> g.vmo, fds |-> a.fds,
          trace |-> a.trace \o g.trace]

\* OpenVmo(resource_vmo, namespc, path, executable)
OpenVmo(namespc, path, executable, env, fdtab) ==
  LET cond == CharAt0(path) # "/"
      check == <<Ev("Check", cond, 0)>>
  IN
  IF CheckFails(cond)
    THEN [abort |-> TRUE, ok |-> FALSE, vmo |-> EmptyBuffer, fds |-> fdtab,
          trace |-> check]
    ELSE LET a == OpenVmoAcquire(namespc, path, env, fdtab) IN
         IF ~a.ok
           THEN [abort |-> FALSE, ok |-> FALSE, vmo |-> a.vmo, fds |-> a.fds,
                 trace |-> check \o a.trace]
           ELSE LET g == OpenVmoGrant(a.vmo, executable, env) IN
                [abort |-> FALSE, ok |-> g.ok, vmo |-> g.vmo, fds |-> a.fds,
                 trace |-> check \o a.trace \o g.trace]

\* ------------------------------------------------------- MappedResource

\* MapFlags asking for a writable mapping as well.
MapFlags_Writable(executable) ==
  {ZX_VM_PERM_READ, "ZX_VM_PERM_WRITE"} \cup
  (IF executable THEN {ZX_VM_PERM_EXECUTE} ELSE {})

\* lines 90-93: the protection of the mapping
MapFlags(executable) ==
  {ZX_VM_PERM_READ} \cup (IF executable THEN {ZX_VM_PERM_EXECUTE} ELSE {})

\* LoadFromVmo storing the size before it looks at the status of map.
LoadFromVmo_SizeBeforeStatus(resource_vmo, res, executable, env, maptab) ==
  IF resource_vmo.size = 0
    THEN [ok |-> TRUE, resource |-> res, maps |-> maptab, trace |-> <<>>]
    ELSE
      LET flags == MapFlags(executable)
          status == MapStatus(resource_vmo, flags, env)
          addr == MapAddr(maptab)
          req == [vmo |-> resource_vmo, vmo_offset |-> 0,
                  len |-> resource_vmo.size, flags |-> flags]
      IN
      IF status # ZX_OK
        THEN [ok |-> FALSE,
              resource |-> [res EXCEPT !.size_ = resource_vmo.size],
              maps |-> maptab,
              trace |-> <<Ev("map", req, status)>>]
        ELSE [ok |-> TRUE,
              resource |-> [address_ |-> addr,
                            size_ |-> resource_vmo.size],
              maps |-> Append(maptab, [addr |-> addr,
                                       len |-> resource_vmo.size,
                                       unmaps |-> 0]),
              trace |-> <<Ev("map", req, status)>>]

\* MappedResource::LoadFromVmo
LoadFromVmo(resource_vmo, res, executable, env, maptab) ==
  IF resource_vmo.size = 0
    THEN [ok |-> TRUE, resource |-> res, maps |-> maptab, trace |-> <<>>]
    ELSE
      LET flags == MapFlags(executable)
          status == MapStatus(resource_vmo, flags, env)
          addr == MapAddr(maptab)
          req == [vmo |-> resource_vmo, vmo_offset |-> 0,
                  len |-> resource_vmo.size, flags |-> flags]
      IN
      IF status # ZX_OK
        THEN [ok |-> FALSE, resource |-> res, maps |-> maptab,
              trace |-> <<Ev("map", req, status)>>]
        ELSE [ok |-> TRUE,
              resource |-> [address_ |-> addr,
                            size_ |-> resource_vmo.size],
              maps |-> Append(maptab, [addr |-> addr,
                                       len |-> resource_vmo.size,
                                       unmaps |-> 0]),
              trace |-> <<Ev("map", req, status)>>]

Bool(b) == IF b THEN "true" ELSE "false"

\* The outcomes of the external calls one entry point can make.
\* An outcome is drawn only for a call that can be reached: nothing follows
\* a failed fdio_ns_opendir, a failed VmoFromFilename(At) or a failed
\* replace_as_executable, and a buffer of size zero is never mapped.
Envs ==
  {env \in [opendir_ok : BOOLEAN, vmo : -1..MaxSize, replace_ok : BOOLEAN,
            map_ok : BOOLEAN] :
     /\ ~env.opendir_ok => env.vmo = -1
     /\ env.vmo = -1 => env.replace_ok
     /\ (env.vmo <= 0 \/ ~env.replace_ok) => ~env.map_ok}

\* LoadFromVmo alone only calls map.
MapEnvs ==
  [opendir_ok : {TRUE}, vmo : {0}, replace_ok : {TRUE}, map_ok : BOOLEAN]

\* MappedResource::LoadFromNamespace(namespc, path, resource, executable)
LoadFromNamespace(namespc, path, executable, env) ==
  /\ ~aborted
  /\ "resource" \notin destroyed
  /\ nops < MaxOps
  /\ LET o == OpenVmo(namespc, path, executable, env, fds)
         l == LoadFromVmo(o.vmo, resource, executable, env, maps)
         args == [namespc |-> namespc, path |-> path, executable |-> executable]
     IN
     IF o.abort
       THEN /\ aborted' = TRUE
            /\ call' = [op |-> "LoadFromNamespace", args |-> args, ret |-> "abort"]
            /\ trace' = o.trace
            /\ UNCHANGED <<resource, maps, fds>>
       ELSE IF ~o.ok
         THEN /\ call' = [op |-> "LoadFromNamespace", args |-> args, ret |-> "false"]
              /\ trace' = o.trace
              /\ fds' = o.fds
              /\ UNCHANGED <<resource, maps, aborted>>
         ELSE /\ call' = [op |-> "LoadFromNamespace", args |-> args, ret |-> Bool(l.ok)]
              /\ trace' = o.trace \o l.trace
              /\ fds' = o.fds
              /\ resource' = l.resource
              /\ maps' = l.maps
              /\ UNCHANGED aborted
  /\ nops' = nops + 1
  /\ UNCHANGED <<snapshot, destroyed, elfs>>
  /\ UNCHANGED threadVars

\* MappedResource::LoadFromVmo(path, resource_vmo, resource, executable),
\* called directly with a buffer the caller obtained elsewhere.  The body
\* never reads path.
LoadFromVmoCall(resource_vmo, executable, env) ==
  /\ ~aborted
  /\ "resource" \notin destroyed
  /\ nops < MaxOps
  /\ LET l == LoadFromVmo(resource_vmo, resource, executable, env, maps) IN
     /\ call' = [op |-> "LoadFromVmo",
                 args |-> [resource_vmo |-> resource_vmo,
                           executable |-> executable],
                 ret |-> Bool(l.ok)]
     /\ trace' = l.trace
     /\ resource' = l.resource
     /\ maps' = l.maps
  /\ nops' = nops + 1
  /\ UNCHANGED <<snapshot, destroyed, fds, elfs, aborted>>
  /\ UNCHANGED threadVars

\* ~MappedResource unmapping without resetting the fields.
DestroyMappedResource_NoReset ==
  /\ ~aborted
  /\ "resource" \notin destroyed
  /\ IF resource.address_ # nullptr
       THEN /\ maps' = Unmap(maps, resource.address_, resource.size_)
            /\ trace' = <<Ev("unmap", <<resource.address_, resource.size_>>, 0)>>
            /\ UNCHANGED resource
       ELSE /\ trace' = <<>>
            /\ UNCHANGED <<resource, maps>>
  /\ call' = [op |-> "~MappedResource", args |-> <<>>, ret |-> "void"]
  /\ destroyed' = destroyed \cup {"resource"}
  /\ UNCHANGED <<snapshot, fds, elfs, aborted, nops>>
  /\ UNCHANGED threadVars

\* MappedResource::~MappedResource
DestroyMappedResource ==
  /\ ~aborted
  /\ "resource" \notin destroyed
  /\ IF resource.address_ # nullptr
       THEN /\ maps' = Unmap(maps, resource.address_, resource.size_)
            /\ trace' = <<Ev("unmap", <<resource.address_, resource.size_>>, 0)>>
            /\ resource' = [address_ |-> nullptr, size_ |-> 0]
       ELSE /\ trace' = <<>>
            /\ UNCHANGED <<resource, maps>>
  /\ call' = [op |-> "~MappedResource", args |-> <<>>, ret |-> "void"]
  /\ destroyed' = destroyed \cup {"resource"}
  /\ UNCHANGED <<snapshot, fds, elfs, aborted, nops>>
  /\ UNCHANGED threadVars

\* ----------------------------------------------------------- ElfSnapshot

\* The outcomes of the external calls one ElfSnapshot::Load can make.
ElfEnvs == [opendir_ok : BOOLEAN, open_ok : BOOLEAN, elf_ok : BOOLEAN]

\* The k-th region pointer of the image behind loader handle h.
RegionPtr(h, k) == 4 * (h - 1) + k

\* OpenFdExec(path, dirfd): fdio_open_fd_at with read and execute rights
OpenFdExec(path, dirfd, env, fdtab) ==
  LET result == IF env.open_ok THEN ZX_OK ELSE ZX_ERR IN
  IF result # ZX_OK
    THEN [fd |-> -1, fds |-> fdtab,
          trace |-> <<Ev("fdio_open_fd_at", <<dirfd, path>>, result)>>]
    ELSE LET opened == NewFd(fdtab, "file", "OpenFdExec") IN
         [fd |-> Len(opened), fds |-> opened,
          trace |-> <<Ev("fdio_open_fd_at", <<dirfd, path>>, result)>>]

\* ElfSnapshot::Load(int fd): Dart_LoadELF_Fd takes the descriptor and
\* returns a loader handle, or nullptr when fd is bad or the image is.
LoadFd(fd, snap, env, fdtab, elftab) ==
  LET handed == IF fd \in DOMAIN fdtab
                  THEN [fdtab EXCEPT ![fd].loads = @ + 1]
                  ELSE fdtab
      loaded == env.elf_ok /\ fd \in DOMAIN fdtab
      h == Len(elftab) + 1
      handle == IF loaded THEN h ELSE nullptr
  IN
  IF handle = nullptr
    THEN [ok |-> FALSE,
          snapshot |-> [snap EXCEPT !.handle_ = handle],
          fds |-> handed, elfs |-> elftab,
          trace |-> <<Ev("Dart_LoadELF_Fd", fd, handle)>>]
    ELSE [ok |-> TRUE,
          snapshot |-> [handle_ |-> handle,
                        vm_data_ |-> RegionPtr(h, 1),
                        vm_instrs_ |-> RegionPtr(h, 2),
                        isolate_data_ |-> RegionPtr(h, 3),
                        isolate_instrs_ |-> RegionPtr(h, 4)],
          fds |-> handed, elfs |-> Append(elftab, [unloads |-> 0]),
          trace |-> <<Ev("Dart_LoadELF_Fd", fd, handle)>>]

\* LoadDirfd closing the descriptor itself when Load(fd) fails.
LoadDirfd_ClosesOnFailure(dirfd, path, snap, env, fdtab, elftab) ==
  LET o == OpenFdExec(path, dirfd, env, fdtab) IN
  IF o.fd < 0
    THEN [ok |-> FALSE, snapshot |-> snap, fds |-> o.fds, elfs |-> elftab,
          trace |-> o.trace]
    ELSE LET l == LoadFd(o.fd, snap, env, o.fds, elftab) IN
         IF l.ok
           THEN [l EXCEPT !.trace = o.trace \o @]
           ELSE [l EXCEPT !.trace = o.trace \o @ \o <<Ev("close", o.fd, 0)>>,
                          !.fds = CloseFd(@, o.fd)]

\* LoadDirfd putting the instance back as it was when Load(fd) fails.
LoadDirfd_RestoresOnFailure(dirfd, path, snap, env, fdtab, elftab) ==
  LET o == OpenFdExec(path, dirfd, env, fdtab) IN
  IF o.fd < 0
    THEN [ok |-> FALSE, snapshot |-> snap, fds |-> o.fds, elfs |-> elftab,
          trace |-> o.trace]
    ELSE LET l == LoadFd(o.fd, snap, env, o.fds, elftab) IN
         [l EXCEPT !.trace = o.trace \o @,
                   !.snapshot = IF l.ok THEN @ ELSE snap]

\* ElfSnapshot::Load(int dirfd, const std::string& path)
LoadDirfd(dirfd, path, snap, env, fdtab, elftab) ==
  LET o == OpenFdExec(path, dirfd, env, fdtab) IN
  IF o.fd < 0
    THEN [ok |-> FALSE, snapshot |-> snap, fds |-> o.fds, elfs |-> elftab,
          trace |-> o.trace]
    ELSE LET l == LoadFd(o.fd, snap, env, o.fds, elftab) IN
         [l EXCEPT !.trace = o.trace \o @]

\* LoadNamespace trying fdio_ns_opendir a second time when it fails.
LoadNamespace_Retries(namespc, path, snap, env, fdtab, elftab) ==
  IF namespc = nullptr
    THEN LoadDirfd(AT_FDCWD, path, snap, env, fdtab, elftab)
    ELSE
      IF ~env.opendir_ok
        THEN [ok |-> FALSE, snapshot |-> snap, fds |-> fdtab, elfs |-> elftab,
              trace |-> <<Ev("fdio_ns_opendir", namespc, -1),
                          Ev("fdio_ns_opendir", namespc, -1)>>]
        ELSE LET opened == NewFd(fdtab, "dir", "ElfSnapshot::Load")
                 root_dir == Len(opened)
                 l == LoadDirfd(root_dir, path, snap, env, opened, elftab)
             IN  [l EXCEPT !.trace =
                     <<Ev("fdio_ns_opendir", namespc, root_dir)>> \o @]

\* ElfSnapshot::Load(fdio_ns_t* namespc, const std::string& path)
LoadNamespace(namespc, path, snap, env, fdtab, elftab) ==
  IF namespc = nullptr
    THEN LoadDirfd(AT_FDCWD, path, snap, env, fdtab, elftab)
    ELSE
      IF ~env.opendir_ok
        THEN [ok |-> FALSE, snapshot |-> snap, fds |-> fdtab, elfs |-> elftab,
              trace |-> <<Ev("fdio_ns_opendir", namespc, -1)>>]
        ELSE LET opened == NewFd(fdtab, "dir", "ElfSnapshot::Load")
                 root_dir == Len(opened)
                 l == LoadDirfd(root_dir, path, snap, env, opened, elftab)
             IN  [l EXCEPT !.trace =
                     <<Ev("fdio_ns_opendir", namespc, root_dir)>> \o @]

\* What an ElfSnapshot::Load entry point leaves behind.
ElfLoadDone(op, args, l) ==
  /\ call' = [op |-> op, args |-> args, ret |-> Bool(l.ok)]
  /\ trace' = l.trace
  /\ snapshot' = l.snapshot
  /\ fds' = l.fds
  /\ elfs' = l.elfs
  /\ nops' = nops + 1
  /\ UNCHANGED <<resource, destroyed, maps, aborted>>
  /\ UNCHANGED threadVars

ElfLoadGuard ==
  /\ ~aborted
  /\ "snapshot" \notin destroyed
  /\ nops < MaxOps

ElfSnapshotLoadNamespace(namespc, path, env) ==
  /\ ElfLoadGuard
  /\ ElfLoadDone("ElfSnapshot::Load(namespc,path)",
                 [namespc |-> namespc, path |-> path],
                 LoadNamespace(namespc, path, snapshot, env, fds, elfs))

\* The directory descriptor the caller of Load(dirfd, path) holds.
CallerFds ==
  <<[kind |-> "dir", opener |-> "caller", closes |-> 0, loads |-> 0]>>

CallerDirFd == Len(CallerFds)

ElfSnapshotLoadDirfd(dirfd, path, env) ==
  /\ ElfLoadGuard
  /\ ElfLoadDone("ElfSnapshot::Load(dirfd,path)",
                 [dirfd |-> dirfd, path |-> path],
                 LoadDirfd(dirfd, path, snapshot, env, fds, elfs))

\* Load(fd) is called with a descriptor the caller has just opened, or with
\* a bad descriptor.
ElfSnapshotLoadFd(good, env) ==
  /\ ElfLoadGuard
  /\ LET opened == IF good THEN NewFd(fds, "file", "caller") ELSE fds
         fd == IF good THEN Len(opened) ELSE -1
     IN ElfLoadDone("ElfSnapshot::Load(fd)", [fd |-> fd],
                    LoadFd(fd, snapshot, env, opened, elfs))

\* ElfSnapshot::~ElfSnapshot
DestroyElfSnapshot ==
  /\ ~aborted
  /\ "snapshot" \notin destroyed
  /\ trace' = <<Ev("Dart_UnloadELF", snapshot.handle_, 0)>>
  /\ elfs' = IF snapshot.handle_ \in DOMAIN elfs
               THEN [elfs EXCEPT ![snapshot.handle_].unloads = @ + 1]
               ELSE elfs
  /\ call' = [op |-> "~ElfSnapshot", args |-> <<>>, ret |-> "void"]
  /\ destroyed' = destroyed \cup {"snapshot"}
  /\ UNCHANGED <<resource, snapshot, maps, fds, aborted, nops>>
  /\ UNCHANGED threadVars

\* ------------------------------------------------------------ two threads

Threads == {1, 2}

\* The addresses a mapping of len bytes at addr covers.
Range(addr, len) == addr..(addr + len - 1)

\* The mappings of the address space that are live and overlap a range.
LiveIn(vm, addr, len) ==
  {i \in DOMAIN vm :
     /\ vm[i].unmaps = 0
     /\ Range(vm[i].addr, vm[i].len) \cap Range(addr, len) # {}}

\* line 86: LoadFromVmo is entered with a buffer of some size; a buffer of
\* size zero returns at once.
ThreadSizeTest(t, size) ==
  /\ pc[t] = "LoadFromVmo"
  /\ locals' = [locals EXCEPT ![t].size = size]
  /\ pc' = [pc EXCEPT ![t] = IF size = 0 THEN "~MappedResource" ELSE "map"]
  /\ UNCHANGED <<resources, vmar, unmapLog>>
  /\ UNCHANGED coreVars

\* lines 95-100: zx::vmar::map.  The kernel refuses (addr = nullptr) or maps
\* the buffer at an address range that is inside the address space and free.
ThreadMap(t, addr) ==
  /\ pc[t] = "map"
  /\ IF addr = nullptr
       THEN /\ pc' = [pc EXCEPT ![t] = "~MappedResource"]
            /\ UNCHANGED <<locals, vmar>>
       ELSE /\ addr + locals[t].size - 1 <= MaxAddr
            /\ LiveIn(vmar, addr, locals[t].size) = {}
            /\ vmar' = Append(vmar, [addr |-> addr, len |-> locals[t].size,
                                     owner |-> t, unmaps |-> 0])
            /\ locals' = [locals EXCEPT ![t].addr = addr]
            /\ pc' = [pc EXCEPT ![t] = "address_ = addr"]
  /\ UNCHANGED <<resources, unmapLog>>
  /\ UNCHANGED coreVars

\* ThreadStoreAddress with address_ shared by all instances.
ThreadStoreAddress_Shared(t) ==
  /\ pc[t] = "address_ = addr"
  /\ resources' = [u \in Threads |->
                     [resources[u] EXCEPT !.address_ = locals[t].addr]]
  /\ pc' = [pc EXCEPT ![t] = "size_ = size"]
  /\ UNCHANGED <<locals, vmar, unmapLog>>
  /\ UNCHANGED coreVars

\* line 102: resource.address_ = addr
ThreadStoreAddress(t) ==
  /\ pc[t] = "address_ = addr"
  /\ resources' = [resources EXCEPT ![t].address_ = locals[t].addr]
  /\ pc' = [pc EXCEPT ![t] = "size_ = size"]
  /\ UNCHANGED <<locals, vmar, unmapLog>>
  /\ UNCHANGED coreVars

\* line 103: resource.size_ = resource_vmo.size; LoadFromVmo returns and the
\* thread goes on to destroy its resource.
ThreadStoreSize(t) ==
  /\ pc[t] = "size_ = size"
  /\ resources' = [resources EXCEPT ![t].size_ = locals[t].size]
  /\ pc' = [pc EXCEPT ![t] = "~MappedResource"]
  /\ UNCHANGED <<locals, vmar, unmapLog>>
  /\ UNCHANGED coreVars

\* line 108: if (address_ != nullptr)
ThreadDestructorTest(t) ==
  /\ pc[t] = "~MappedResource"
  /\ pc' = [pc EXCEPT ![t] = IF resources[t].address_ # nullptr
                               THEN "unmap" ELSE "done"]
  /\ UNCHANGED <<resources, locals, vmar, unmapLog>>
  /\ UNCHANGED coreVars

\* line 109: zx::vmar::unmap(address_, size_) releases every live mapping
\* in that range.
ThreadUnmap(t) ==
  /\ pc[t] = "unmap"
  /\ LET hit == LiveIn(vmar, resources[t].address_, resources[t].size_) IN
     /\ vmar' = [i \in DOMAIN vmar |->
                   IF i \in hit THEN [vmar[i] EXCEPT !.unmaps = @ + 1]
                                ELSE vmar[i]]
     /\ unmapLog' = unmapLog \cup
                      {[by |-> t, addr |-> resources[t].address_,
                        len |-> resources[t].size_, hit |-> hit]}
  /\ pc' = [pc EXCEPT ![t] = "address_ = nullptr"]
  /\ UNCHANGED <<resources, locals>>
  /\ UNCHANGED coreVars

\* lines 110-111: address_ = nullptr; size_ = 0
ThreadReset(t) ==
  /\ pc[t] = "address_ = nullptr"
  /\ resources' = [resources EXCEPT ![t] = [address_ |-> nullptr, size_ |-> 0]]
  /\ pc' = [pc EXCEPT ![t] = "done"]
  /\ UNCHANGED <<locals, vmar, unmapLog>>
  /\ UNCHANGED coreVars

\* ---------------------------------------------------------- specification

\* Buffers a caller can hand to LoadFromVmo.
Buffers == [size : 0..MaxSize, valid : {TRUE}, exec : BOOLEAN]

Init ==
  /\ resource = [address_ |-> nullptr, size_ |-> 0]
  /\ snapshot = [handle_ |-> nullptr, vm_data_ |-> nullptr,
                 vm_instrs_ |-> nullptr, isolate_data_ |-> nullptr,
                 isolate_instrs_ |-> nullptr]
  /\ destroyed = {}
  /\ maps = <<>>
  /\ fds = CallerFds
  /\ elfs = <<>>
  /\ call = [op |-> "init", args |-> <<>>, ret |-> "void"]
  /\ trace = <<>>
  /\ aborted = FALSE
  /\ nops = 0
  /\ pc = [t \in Threads |-> "LoadFromVmo"]
  /\ resources = [t \in Threads |-> [address_ |-> nullptr, size_ |-> 0]]
  /\ locals = [t \in Threads |-> [size |-> 0, addr |-> nullptr]]
  /\ vmar = <<>>
  /\ unmapLog = {}

NextResource ==
  \/ \E namespc \in Namespaces \cup {nullptr}, path \in Paths,
        executable \in BOOLEAN, env \in Envs :
       LoadFromNamespace(namespc, path, executable, env)
  \/ \E resource_vmo \in Buffers, executable \in BOOLEAN, env \in MapEnvs :
       LoadFromVmoCall(resource_vmo, executable, env)
  \/ DestroyMappedResource

NextSnapshot ==
  \/ \E namespc \in Namespaces \cup {nullptr}, path \in Paths, env \in ElfEnvs :
       ElfSnapshotLoadNamespace(namespc, path, env)
  \/ \E dirfd \in {AT_FDCWD, CallerDirFd}, path \in Paths, env \in ElfEnvs :
       ElfSnapshotLoadDirfd(dirfd, path, env)
  \/ \E good \in BOOLEAN, env \in ElfEnvs :
       ElfSnapshotLoadFd(good, env)
  \/ DestroyElfSnapshot

\* One MappedResource, loaded any number of times and then destroyed.
SpecResource == Init /\ [][NextResource]_vars

\* One ElfSnapshot, loaded any number of times and then destroyed.
SpecSnapshot == Init /\ [][NextSnapshot]_vars

NextThreads ==
  \/ \E t \in Threads, size \in 0..MaxSize : ThreadSizeTest(t, size)
  \/ \E t \in Threads, addr \in {nullptr} \cup (1..MaxAddr) : ThreadMap(t, addr)
  \/ \E t \in Threads : ThreadStoreAddress(t)
  \/ \E t \in Threads : ThreadStoreSize(t)
  \/ \E t \in Threads : ThreadDestructorTest(t)
  \/ \E t \in Threads : ThreadUnmap(t)
  \/ \E t \in Threads : ThreadReset(t)

\* Two threads, each running LoadFromVmo and then the destructor on its own
\* MappedResource, their statements interleaved in every order.
SpecThreads == Init /\ [][NextThreads]_vars

\* A MappedResource and an ElfSnapshot used by the same caller.
NextBoth == NextResource \/ NextSnapshot

SpecBoth == Init /\ [][NextBoth]_vars

\* ----------------------------------------------------------------- claims

\* The calls of the last entry point to one of the functions fns.
Calls(fns) == {i \in DOMAIN trace : trace[i].fn \in fns}

IsLoadFromNamespace == call.op = "LoadFromNamespace"

StartsWithSlash(path) == Len(path) > 0 /\ path[1] = "/"

\* C1: a LoadFromNamespace call whose path begins with '/' dies in the fatal
\* check before any external lookup: it makes no fdio_ns_opendir, no
\* VmoFromFilename / VmoFromFilenameAt, no replace_as_executable and no map
\* call, whether the namespace is null or not.
C1_RootPathRejectedBeforeLookup ==
  (IsLoadFromNamespace /\ StartsWithSlash(call.args.path)) =>
     /\ aborted
     /\ call.ret = "abort"
     /\ trace = <<Ev("Check", FALSE, 0)>>
     /\ Calls({"fdio_ns_opendir", "VmoFromFilename", "VmoFromFilenameAt",
               "replace_as_executable", "map"}) = {}

C1_Witness ==
  /\ IsLoadFromNamespace
  /\ StartsWithSlash(call.args.path)
  /\ call.args.namespc # nullptr
  /\ aborted

\* The last call was LoadFromNamespace with executable = true and its
\* replace_as_executable failed.
GrantFailed ==
  /\ IsLoadFromNamespace
  /\ call.args.executable
  /\ \E i \in Calls({"replace_as_executable"}) : trace[i].ret # ZX_OK

\* C2: a LoadFromNamespace call with executable = true whose
\* replace_as_executable fails returns failure, makes no map call (so no
\* read-only mapping is created instead) and leaves the resource's address
\* and size as they were.
C2_GrantFailureIsFailure ==
  [][GrantFailed' =>
       /\ call'.ret = "false"
       /\ Calls({"map"})' = {}
       /\ maps' = maps
       /\ resource' = resource]_vars

C2_Witness ==
  /\ GrantFailed
  /\ resource.address_ # nullptr
  /\ call.ret = "false"

\* The mappings that were created and not unmapped.
LiveMaps == {i \in DOMAIN maps : maps[i].unmaps = 0}

\* C3: whatever LoadFromNamespace / LoadFromVmo calls are made on a
\* MappedResource, at most one mapping made for it is live at any time,
\* and once it is destroyed every mapping made for it has been unmapped
\* exactly once.
C3_EveryMapUnmappedOnce ==
  /\ Cardinality(LiveMaps) <= 1
  /\ "resource" \in destroyed => \A i \in DOMAIN maps : maps[i].unmaps = 1

\* C4: whatever ElfSnapshot::Load calls are made on an ElfSnapshot, once it
\* is destroyed every loader handle that Dart_LoadELF_Fd returned non-null
\* has been passed to Dart_UnloadELF exactly once.
C4_EveryHandleUnloadedOnce ==
  "snapshot" \in destroyed => \A h \in DOMAIN elfs : elfs[h].unloads = 1

\* C5: destroying an ElfSnapshot whose loader handle is unset calls the
\* unload routine zero times; destroying one whose handle is set calls it
\* exactly once.
C5_UnloadOnlyWhenLoaded ==
  call.op = "~ElfSnapshot" =>
    Cardinality(Calls({"Dart_UnloadELF"})) =
      (IF snapshot.handle_ = nullptr THEN 0 ELSE 1)

\* The last call reached LoadFromVmo with a buffer of size zero.
ZeroSizeLoad ==
  \/ /\ call.op = "LoadFromVmo"
     /\ call.args.resource_vmo.size = 0
  \/ /\ IsLoadFromNamespace
     /\ \E i \in Calls({"VmoFromFilename", "VmoFromFilenameAt"}) :
          trace[i].ret.ok /\ trace[i].ret.vmo.size = 0
     /\ \A i \in Calls({"replace_as_executable"}) : trace[i].ret = ZX_OK

\* C6: LoadFromVmo given a buffer of size zero returns success without
\* calling map and the resource then has address = null and size = 0,
\* whatever the resource held before.
C6_ZeroSizeLeavesNull ==
  ZeroSizeLoad =>
    /\ call.ret = "true"
    /\ Calls({"map"}) = {}
    /\ resource = [address_ |-> nullptr, size_ |-> 0]

\* C7: as long as the MappedResource exists, after its construction and
\* after every load, failed or not, address_ is non-null exactly when a
\* mapping made for it is live, size_ is then the length given to the last
\* successful map, and size_ is 0 when there is none.
C7_AddressIffMapped ==
  "resource" \notin destroyed =>
    /\ (resource.address_ # nullptr) <=> (LiveMaps # {})
    /\ resource.address_ # nullptr =>
         /\ maps[Len(maps)].addr = resource.address_
         /\ maps[Len(maps)].len = resource.size_
         /\ maps[Len(maps)].unmaps = 0
         /\ resource.size_ > 0
    /\ resource.address_ = nullptr => resource.size_ = 0

C7_Witness ==
  /\ "resource" \notin destroyed
  /\ resource.address_ # nullptr
  /\ call.op \in {"LoadFromNamespace", "LoadFromVmo"}
  /\ call.ret = "false"
  /\ Calls({"map"}) # {}

\* C8: in LoadFromNamespace with a non-null namespace every descriptor that
\* fdio_ns_opendir opened is closed exactly once before the call returns,
\* after the lookup and on every exit path; with a null namespace nothing
\* is opened and close is never called.
C8_RootDirClosedOnce ==
  /\ \A fd \in DOMAIN fds : fds[fd].opener = "OpenVmo" => fds[fd].closes = 1
  /\ IsLoadFromNamespace =>
       /\ \A i \in Calls({"fdio_ns_opendir"}) :
            trace[i].ret >= 0 =>
              /\ Cardinality({j \in Calls({"close"}) :
                                trace[j].arg = trace[i].ret}) = 1
              /\ \A j \in Calls({"close"}) : j > i + 1
       /\ \A j \in Calls({"close"}) :
            \E i \in Calls({"fdio_ns_opendir"}) : trace[i].ret = trace[j].arg
       /\ call.args.namespc = nullptr =>
            Calls({"fdio_ns_opendir", "close"}) = {}

C8_Witness ==
  /\ IsLoadFromNamespace
  /\ call.args.namespc # nullptr
  /\ call.ret = "false"
  /\ \E i \in Calls({"VmoFromFilenameAt"}) : ~trace[i].ret.ok
  /\ Calls({"close"}) # {}

IsElfLoadByPath ==
  call.op \in {"ElfSnapshot::Load(namespc,path)", "ElfSnapshot::Load(dirfd,path)"}

\* C9: the directory descriptor that ElfSnapshot::Load(namespc, path) opens
\* with fdio_ns_opendir is closed exactly once right after the
\* fdio_open_fd_at attempt, so no descriptor opened by resolution stays
\* open after a load, and AT_FDCWD is never closed.
C9_ElfRootDirClosed ==
  /\ \A fd \in DOMAIN fds :
       fds[fd].opener = "ElfSnapshot::Load" => fds[fd].closes = 1
  /\ \A j \in Calls({"close"}) : trace[j].arg # AT_FDCWD

\* C10: ElfSnapshot::Load(namespc, path) and ElfSnapshot::Load(dirfd, path)
\* reject a path that begins with '/' before any lookup: they call neither
\* fdio_open_fd_at nor Dart_LoadELF_Fd for it.
C10_ElfRootPathRejected ==
  (IsElfLoadByPath /\ StartsWithSlash(call.args.path)) =>
     Calls({"fdio_open_fd_at", "Dart_LoadELF_Fd"}) = {}

\* The map requests of the last call that ask for execute protection.
ExecMaps == {i \in Calls({"map"}) : ZX_VM_PERM_EXECUTE \in trace[i].arg.flags}

\* Map request i is for a vmo on which an earlier replace_as_executable of
\* the same call succeeded.
Escalated(i) ==
  /\ trace[i].arg.vmo.exec
  /\ \E j \in Calls({"replace_as_executable"}) : j < i /\ trace[j].ret = ZX_OK

\* C11 as claimed: every map request with execute protection, made by
\* LoadFromNamespace or by LoadFromVmo called directly, is for a handle on
\* which replace_as_executable succeeded earlier in the same load.
C11_EveryExecMapEscalated ==
  \A i \in ExecMaps : Escalated(i)

\* C11: every map request with execute protection made by LoadFromNamespace
\* is for a handle on which replace_as_executable succeeded earlier in the
\* same call; LoadFromVmo called directly with executable = true requests
\* the execute mapping of the caller's buffer as it is, without any
\* replace_as_executable.
C11_NamespaceExecMapEscalated ==
  /\ IsLoadFromNamespace => \A i \in ExecMaps : Escalated(i)
  /\ call.op = "LoadFromVmo" =>
       /\ Calls({"replace_as_executable"}) = {}
       /\ \A i \in Calls({"map"}) :
            /\ trace[i].arg.vmo = call.args.resource_vmo
            /\ (i \in ExecMaps <=> call.args.executable)

C11_Witness ==
  /\ IsLoadFromNamespace
  /\ ExecMaps # {}
  /\ call.ret = "true"

\* C12: when the directory open and the fd open succeed and the image
\* loader gives the same result, Load(namespc, path), Load(dirfd, path) and
\* Load(fd) return the same value and leave the same loader handle and the
\* same four region pointers in the instance, whatever it held before.
C12_EntryPointsAgree ==
  "snapshot" \notin destroyed =>
    \A namespc \in Namespaces \cup {nullptr}, path \in Paths,
       dirfd \in {AT_FDCWD, CallerDirFd}, elf_ok \in BOOLEAN :
      LET env == [opendir_ok |-> TRUE, open_ok |-> TRUE, elf_ok |-> elf_ok]
          byNamespace == LoadNamespace(namespc, path, snapshot, env, fds, elfs)
          byDirfd == LoadDirfd(dirfd, path, snapshot, env, fds, elfs)
          opened == NewFd(fds, "file", "caller")
          byFd == LoadFd(Len(opened), snapshot, env, opened, elfs)
      IN  /\ byNamespace.ok = elf_ok
          /\ byDirfd.ok = elf_ok
          /\ byFd.ok = elf_ok
          /\ byNamespace.snapshot = byFd.snapshot
          /\ byDirfd.snapshot = byFd.snapshot

C12_Witness ==
  /\ call.op = "ElfSnapshot::Load(namespc,path)"
  /\ call.args.namespc # nullptr
  /\ call.ret = "true"
  /\ snapshot.handle_ # nullptr
  /\ "snapshot" \notin destroyed

IsResourceLoad == call.op \in {"LoadFromNamespace", "LoadFromVmo"}

\* C13: a LoadFromNamespace or LoadFromVmo call that returns failure,
\* whichever step failed, leaves address_ and size_ exactly as they were
\* and leaves no new mapping behind.
C13_FailedLoadChangesNothing ==
  [][(IsResourceLoad' /\ call'.ret = "false") =>
       /\ resource' = resource
       /\ maps' = maps]_vars

C13_Witness ==
  /\ IsLoadFromNamespace
  /\ call.ret = "false"
  /\ resource.address_ # nullptr
  /\ \E i \in Calls({"VmoFromFilename", "VmoFromFilenameAt"}) : ~trace[i].ret.ok

\* The size of the buffer that the last call handed to LoadFromVmo.
LoadedBufferSizes ==
  IF call.op = "LoadFromVmo"
    THEN {call.args.resource_vmo.size}
    ELSE {trace[i].ret.vmo.size :
            i \in Calls({"VmoFromFilename", "VmoFromFilenameAt"})}

\* C14: every map request of LoadFromVmo has vmo offset 0, the length of
\* the buffer and protection exactly {read}, or exactly {read, execute}
\* when executable is true; write is never asked for, and a buffer of size
\* zero is never mapped.
C14_MapRequestShape ==
  IsResourceLoad =>
    /\ Cardinality(Calls({"map"})) <= 1
    /\ \A i \in Calls({"map"}) :
         /\ trace[i].arg.vmo_offset = 0
         /\ trace[i].arg.len = trace[i].arg.vmo.size
         /\ trace[i].arg.len \in LoadedBufferSizes
         /\ trace[i].arg.len > 0
         /\ trace[i].arg.flags =
              (IF call.args.executable
                 THEN {ZX_VM_PERM_READ, ZX_VM_PERM_EXECUTE}
                 ELSE {ZX_VM_PERM_READ})
         /\ "ZX_VM_PERM_WRITE" \notin trace[i].arg.flags

C14_Witness ==
  /\ call.op = "LoadFromVmo"
  /\ call.args.executable
  /\ call.args.resource_vmo.size = MaxSize
  /\ Calls({"map"}) # {}
  /\ call.ret = "true"

\* C15: the destructor of a MappedResource calls unmap exactly once, with
\* the stored address and size, when address_ is non-null, and not at all
\* when it is null; afterwards address_ is null and size_ is 0.
C15_DestructorUnmapsOnce ==
  [][(call'.op = "~MappedResource" /\ "resource" \notin destroyed) =>
       /\ trace' = (IF resource.address_ # nullptr
                      THEN <<Ev("unmap", <<resource.address_, resource.size_>>, 0)>>
                      ELSE <<>>)
       /\ resource' = [address_ |-> nullptr, size_ |-> 0]]_vars

C15_Witness ==
  /\ call.op = "~MappedResource"
  /\ Calls({"unmap"}) # {}
  /\ resource.address_ = nullptr
  /\ \E i \in DOMAIN maps : maps[i].unmaps = 1

\* The images that were loaded and not unloaded.
LiveElfs == {h \in DOMAIN elfs : elfs[h].unloads = 0}

\* C17: as long as the ElfSnapshot exists, after any Load calls through any
\* overload, handle_ is non-null exactly when the instance holds a loaded
\* image that has not been unloaded, and that image is the one behind
\* handle_.
C17_HandleIffLoaded ==
  "snapshot" \notin destroyed =>
    /\ (snapshot.handle_ # nullptr) <=> (LiveElfs # {})
    /\ snapshot.handle_ # nullptr => snapshot.handle_ \in LiveElfs

\* What the last call did with the descriptors OpenFdExec opened in it.
OpenedByOpenFdExec ==
  {i \in Calls({"fdio_open_fd_at"}) : trace[i].ret = ZX_OK}

\* C19: every descriptor that OpenFdExec opened is handed to
\* Dart_LoadELF_Fd exactly once and the core never closes it, whether the
\* image then loads or not; when the open fails Dart_LoadELF_Fd is not
\* called.
C19_FdHandedToLoaderOnce ==
  /\ \A fd \in DOMAIN fds :
       fds[fd].opener = "OpenFdExec" =>
         /\ fds[fd].loads = 1
         /\ fds[fd].closes = 0
  /\ IsElfLoadByPath =>
       /\ Calls({"close"}) = {}
       /\ Cardinality(Calls({"Dart_LoadELF_Fd"})) =
            Cardinality(OpenedByOpenFdExec)
       /\ \A i \in Calls({"Dart_LoadELF_Fd"}) :
            /\ i - 1 \in OpenedByOpenFdExec
            /\ fds[trace[i].arg].opener = "OpenFdExec"

C19_Witness ==
  /\ call.op = "ElfSnapshot::Load(dirfd,path)"
  /\ call.ret = "false"
  /\ OpenedByOpenFdExec # {}
  /\ Calls({"Dart_LoadELF_Fd"}) # {}

\* The last call's fdio_ns_opendir failed.
OpendirFailed == \E i \in Calls({"fdio_ns_opendir"}) : trace[i].ret < 0

\* C16: when fdio_ns_opendir fails, LoadFromNamespace and
\* ElfSnapshot::Load(namespc, path) return failure after that one open
\* attempt: no second attempt, and no buffer acquisition, execute grant,
\* map, fd open, image load or close follows.
C16_OpendirFailureIsFinal ==
  OpendirFailed =>
    /\ call.op \in {"LoadFromNamespace", "ElfSnapshot::Load(namespc,path)"}
    /\ call.ret = "false"
    /\ Cardinality(Calls({"fdio_ns_opendir"})) = 1
    /\ trace[Len(trace)].fn = "fdio_ns_opendir"
    /\ Calls({"VmoFromFilename", "VmoFromFilenameAt", "replace_as_executable",
              "map", "fdio_open_fd_at", "Dart_LoadELF_Fd", "close"}) = {}

C16_Witness ==
  /\ OpendirFailed
  /\ call.op = "ElfSnapshot::Load(namespc,path)"
  /\ call.ret = "false"
  /\ resource.address_ # nullptr

\* C18: with two threads each loading and destroying its own
\* MappedResource, in every interleaving each unmap call releases exactly
\* one mapping, made for the caller's instance with that address and
\* length, no mapping is unmapped twice, and once both instances are
\* destroyed no mapping made by either is live.
C18_ThreadsReleaseOwnMappings ==
  /\ \A u \in unmapLog :
       /\ Cardinality(u.hit) = 1
       /\ \A i \in u.hit :
            /\ vmar[i].owner = u.by
            /\ vmar[i].addr = u.addr
            /\ vmar[i].len = u.len
  /\ \A i \in DOMAIN vmar : vmar[i].unmaps <= 1
  /\ (\A t \in Threads : pc[t] = "done") =>
       \A i \in DOMAIN vmar : vmar[i].unmaps = 1

\* Both threads mapped and are done; their mappings were live together.
C18_Witness ==
  /\ \A t \in Threads : pc[t] = "done"
  /\ Len(vmar) = 2
  /\ vmar[1].owner # vmar[2].owner
  /\ vmar[1].addr # vmar[2].addr
  /\ Cardinality(unmapLog) = 2

====
